---- MODULE Spec2Model ----
(***************************************************************************)
(* A model of herepy.traffic_api.TrafficApi: the three public incident     *)
(* queries, the shared GET path, the error classifier and the parameter    *)
(* encoders.                                                                *)
(*                                                                         *)
(* Python strings that the code builds are modelled as sequences of        *)
(* one-character strings, so that joining, slicing and formatting are      *)
(* computed and can be compared against a reference.  A coordinate is a    *)
(* float with one fractional digit, held as its number of tenths           *)
(* (525 is 52.5).  An Optional value is a sequence of length 0 or 1.       *)
(* A JSON value is a record [t, v]: t is its JSON type, v its text.        *)
(***************************************************************************)
EXTENDS Integers, Sequences, FiniteSets, TLC

VARIABLES config, pc, op, args, data, request, requests, response, outcome

vars == <<config, pc, op, args, data, request, requests, response, outcome>>

(* ---------------------------- bounds ----------------------------------- *)
MaxLevels == 2
MaxPoints == 2

(* ------------------------ strings as char sequences -------------------- *)
Digits == <<"0", "1", "2", "3", "4", "5", "6", "7", "8", "9">>

RECURSIVE NatToStr(_)
NatToStr(n) ==
    IF n < 10 THEN <<Digits[n + 1]>>
    ELSE NatToStr(n \div 10) \o <<Digits[(n % 10) + 1]>>

\* str(i) of a Python int
IntToStr(i) == IF i < 0 THEN <<"-">> \o NatToStr(-i) ELSE NatToStr(i)

\* '{0}'.format(x) of a Python float x = tenths / 10
FloatToStr(tenths) ==
    LET a == IF tenths < 0 THEN -tenths ELSE tenths
    IN  (IF tenths < 0 THEN <<"-">> ELSE <<>>)
            \o NatToStr(a \div 10) \o <<".">> \o <<Digits[(a % 10) + 1]>>

\* s[:-1] of a Python string
DropLast(s) == IF Len(s) = 0 THEN <<>> ELSE SubSeq(s, 1, Len(s) - 1)

(* ------------------------------ enums ---------------------------------- *)
CriticalityNames == {"critical", "major", "minor", "lowImpact"}

\* IncidentsCriticalityStr.__str__
CriticalityStr(c) ==
    CASE c = "critical"  -> <<"c","r","i","t","i","c","a","l">>
      [] c = "major"     -> <<"m","a","j","o","r">>
      [] c = "minor"     -> <<"m","i","n","o","r">>
      [] c = "lowImpact" -> <<"l","o","w","I","m","p","a","c","t">>

\* IncidentsCriticalityInt.__int__
CriticalityInt(c) ==
    CASE c = "critical"  -> 0
      [] c = "major"     -> 1
      [] c = "minor"     -> 2
      [] c = "lowImpact" -> 3

(* ----------------------------- inputs ---------------------------------- *)
Lats   == {525, -10}
Lons   == {134}
Points == {<<la, lo>> : la \in Lats, lo \in Lons}
Widths == {50, 1000}
ApiKeys  == {<<"k", "1">>, <<"k", "2">>}
Timeouts == {<<>>, <<5>>}

SeqsUpTo(S, n) == UNION {[1..m -> S] : m \in 0..n}

LevelSeqs == SeqsUpTo(CriticalityNames, MaxLevels)
PointSeqs == SeqsUpTo(Points, MaxPoints)

(* --------------------------- JSON values ------------------------------- *)
JNull     == [t |-> "null", v |-> "null"]
JStr(s)   == [t |-> "str",  v |-> s]
JList(s)  == [t |-> "list", v |-> s]

Keys == {"TRAFFICITEMS", "error", "error_description", "Type", "Message"}

FieldOptions ==
    [TRAFFICITEMS      |-> {<<>>, <<JNull>>, <<JList("[]")>>, <<JList("[item]")>>},
     error             |-> {<<>>, <<JStr("Unauthorized")>>, <<JStr("Forbidden")>>},
     error_description |-> {<<>>, <<JStr("bad key")>>},
     Type              |-> {<<>>, <<JStr("Invalid Request")>>, <<JStr("ServerFault")>>},
     Message           |-> {<<>>, <<JStr("bad bbox")>>}]

\* the JSON object holding exactly the fields whose option is present
MkObj(o) == [k \in {x \in Keys : o[x] # <<>>} |-> o[k][1]]

JsonObjects ==
    {MkObj([TRAFFICITEMS |-> ti, error |-> er, error_description |-> ed,
            Type |-> ty, Message |-> ms]) :
        ti \in FieldOptions.TRAFFICITEMS, er \in FieldOptions.error,
        ed \in FieldOptions.error_description, ty \in FieldOptions.Type,
        ms \in FieldOptions.Message}

EmptyObj == [k \in {} |-> JNull]

HasKey(obj, k) == k \in DOMAIN obj

\* dict.get(k): the value, or None when the key is missing
DictGet(obj, k) == IF HasKey(obj, k) THEN obj[k] ELSE JNull

\* dict.get(k, default)
DictGetDefault(obj, k, default) == IF HasKey(obj, k) THEN obj[k] ELSE default

(* ------------------- what requests.get can come back with -------------- *)
\* a raised transport exception, or a body: bytes that are not UTF-8, text
\* that is not JSON, a JSON value that is not an object, or a JSON object
TransportFailures == {"ConnectionError", "Timeout"}
BodyForms == {"notutf8", "notjson", "nonobject", "object"}

NoResponse == [form |-> "none", obj |-> EmptyObj]

Responses ==
    {[form |-> f, obj |-> EmptyObj] : f \in BodyForms \ {"object"}}
        \cup {[form |-> "object", obj |-> o] : o \in JsonObjects}

(* ------------------------------ outcomes ------------------------------- *)
ApiErrorKinds == {"UnauthorizedError", "InvalidRequestError", "HEREError"}

NoOutcome == [kind |-> "none", msg |-> JNull, payload |-> EmptyObj]
Returned(obj) == [kind |-> "response", msg |-> JNull, payload |-> obj]
Raised(k, m) == [kind |-> k, msg |-> m, payload |-> EmptyObj]

(* ------------------------- error classifier ---------------------------- *)
\* sys._getframe(1).f_code.co_name inside __get_error_from_response: the
\* name of the calling function, which is always __get
CallerName == "__get"

\* the classifier with the Unauthorized message read from "Message" and an
\* empty fallback
GetErrorFromResponse_NoFallback(json_data) ==
    LET error_message == DictGetDefault(json_data, "Message", JStr(""))
    IN  IF HasKey(json_data, "error") /\ json_data["error"] = JStr("Unauthorized")
        THEN IF HasKey(json_data, "error_description")
             THEN Raised("UnauthorizedError", error_message)
             ELSE Raised("KeyError", JStr("error_description"))
        ELSE IF DictGet(json_data, "Type") = JStr("Invalid Request")
             THEN Raised("InvalidRequestError", error_message)
             ELSE Raised("HEREError", error_message)

GetErrorFromResponse(json_data) ==
    IF HasKey(json_data, "error") /\ json_data["error"] = JStr("Unauthorized")
    THEN IF HasKey(json_data, "error_description")
         THEN Raised("UnauthorizedError", json_data["error_description"])
         ELSE Raised("KeyError", JStr("error_description"))
    ELSE LET error_type == DictGet(json_data, "Type")
             error_message == DictGetDefault(json_data, "Message",
                                  JStr("Error occured on " \o CallerName))
         IN  IF error_type = JStr("Invalid Request")
             THEN Raised("InvalidRequestError", error_message)
             ELSE Raised("HEREError", error_message)

(* --------------------------- parameter encoders ------------------------ *)
RECURSIVE AppendEach(_, _, _)
\* the for loop shared by the encoders: acc += piece(x) for x in xs[i..]
AppendEach(acc, pieces, i) ==
    IF i > Len(pieces) THEN acc
    ELSE AppendEach(acc \o pieces[i], pieces, i + 1)

\* the string joiner without the final [:-1]
PrepareCriticalityStrValues_NoStrip(criticality_enums) ==
    LET pieces == [i \in 1..Len(criticality_enums) |->
                     CriticalityStr(criticality_enums[i]) \o <<",">>]
    IN  AppendEach(<<>>, pieces, 1)

PrepareCriticalityStrValues(criticality_enums) ==
    LET pieces == [i \in 1..Len(criticality_enums) |->
                     CriticalityStr(criticality_enums[i]) \o <<",">>]
    IN  DropLast(AppendEach(<<>>, pieces, 1))

PrepareCriticalityIntValues(criticality_enums) ==
    LET pieces == [i \in 1..Len(criticality_enums) |->
                     IntToStr(CriticalityInt(criticality_enums[i])) \o <<",">>]
    IN  DropLast(AppendEach(<<>>, pieces, 1))

\* the corridor encoder with the two format indices exchanged
PrepareCorridorValue_Swapped(points, width) ==
    LET pieces == [i \in 1..Len(points) |->
                     FloatToStr(points[i][2]) \o <<",">>
                        \o FloatToStr(points[i][1]) \o <<";">>]
    IN  AppendEach(<<>>, pieces, 1) \o IntToStr(width)

PrepareCorridorValue(points, width) ==
    LET pieces == [i \in 1..Len(points) |->
                     FloatToStr(points[i][1]) \o <<",">>
                        \o FloatToStr(points[i][2]) \o <<";">>]
    IN  AppendEach(<<>>, pieces, 1) \o IntToStr(width)

(* ------------------------- request parameters -------------------------- *)
BoundingBoxData(cfg, top_left, bottom_right, criticality) ==
    [bbox |-> FloatToStr(top_left[1]) \o <<",">> \o FloatToStr(top_left[2])
                \o <<";">> \o FloatToStr(bottom_right[1]) \o <<",">>
                \o FloatToStr(bottom_right[2]),
     apiKey |-> cfg.api_key,
     criticality |-> PrepareCriticalityStrValues(criticality)]

\* the corridor parameters with a criticality entry copied from the others
CorridorData_WithCriticality(cfg, points, width) ==
    [corridor |-> PrepareCorridorValue(points, width),
     criticality |-> <<>>,
     apiKey |-> cfg.api_key]

CorridorData(cfg, points, width) ==
    [corridor |-> PrepareCorridorValue(points, width),
     apiKey |-> cfg.api_key]

ProximityData(cfg, latitude, longitude, radius, criticality) ==
    [prox |-> FloatToStr(latitude) \o <<",">> \o FloatToStr(longitude)
                \o <<",">> \o IntToStr(radius),
     criticality |-> PrepareCriticalityIntValues(criticality),
     apiKey |-> cfg.api_key]

BaseUrl == "https://traffic.ls.hereapi.com/traffic/6.0/"

\* Utils.build_url(url, extra_params=data): the endpoint with the query
\* parameters appended, kept as the pair it is built from
BuildUrl(url, extra_params) == [url |-> url, params |-> extra_params]

(* ------------------------------- state --------------------------------- *)
\* config   the client's _api_key, _timeout and _base_url
\* pc       where the current call stands: "get" before requests.get,
\*          "parse" once the body is in, "done" after the return or raise
\* op       the public operation that was called last
\* args     its arguments, data its url and parameter dictionary (locals of
\*          the call, gone when it ends)
\* request  the GET issued by the current call, as an Optional
\* requests the number of GETs the current call has issued
\* response the body received last
\* outcome  what the call returned or raised
NoArgs == [points |-> <<>>, size |-> 0, criticality |-> <<>>]
NoData == [url |-> "", params |-> EmptyObj]

\* TrafficApi(api_key, timeout)
Init ==
    /\ \E k \in ApiKeys, t \in Timeouts :
          config = [api_key |-> k, timeout |-> t, base_url |-> BaseUrl]
    /\ pc = "idle"
    /\ op = "none"
    /\ args = NoArgs
    /\ data = NoData
    /\ request = <<>>
    /\ requests = 0
    /\ response = NoResponse
    /\ outcome = NoOutcome

\* the entry with the endpoint appended to _base_url in place
Enter_StoresUrl(name, a, d) ==
    /\ pc \in {"idle", "done"}
    /\ op' = name
    /\ args' = a
    /\ config' = [config EXCEPT !.base_url = @ \o "incidents.json"]
    /\ data' = [url |-> config'.base_url, params |-> d]
    /\ request' = <<>>
    /\ requests' = 0
    /\ response' = NoResponse
    /\ outcome' = NoOutcome
    /\ pc' = "get"

\* a public operation up to its call of __get: the parameters are encoded
\* and the endpoint is fixed
Enter(name, a, d) ==
    /\ pc \in {"idle", "done"}
    /\ op' = name
    /\ args' = a
    /\ data' = [url |-> config.base_url \o "incidents.json", params |-> d]
    /\ request' = <<>>
    /\ requests' = 0
    /\ response' = NoResponse
    /\ outcome' = NoOutcome
    /\ pc' = "get"
    /\ UNCHANGED config

IncidentsInBoundingBox ==
    \E top_left \in Points, bottom_right \in Points, criticality \in LevelSeqs :
        Enter("incidents_in_bounding_box",
              [points |-> <<top_left, bottom_right>>, size |-> 0,
               criticality |-> criticality],
              BoundingBoxData(config, top_left, bottom_right, criticality))

IncidentsInCorridor ==
    \E points \in PointSeqs, width \in Widths :
        Enter("incidents_in_corridor",
              [points |-> points, size |-> width, criticality |-> <<>>],
              CorridorData(config, points, width))

IncidentsViaProximity ==
    \E p \in Points, radius \in Widths, criticality \in LevelSeqs :
        Enter("incidents_via_proximity",
              [points |-> <<p>>, size |-> radius, criticality |-> criticality],
              ProximityData(config, p[1], p[2], radius, criticality))

\* __get, lines 35-36: build the URL and block in requests.get, which either
\* raises the transport's exception (the call ends, nothing catches it) or
\* hands back a response
GetRequest ==
    /\ pc = "get"
    /\ requests' = requests + 1
    /\ \/ \E e \in TransportFailures :
             /\ outcome' = Raised(e, JNull)
             /\ response' = response
             /\ request' = <<>>
             /\ args' = NoArgs
             /\ data' = NoData
             /\ pc' = "done"
       \/ \E r \in Responses :
             /\ response' = r
             /\ outcome' = outcome
             /\ request' = <<[get |-> BuildUrl(data.url, data.params),
                              timeout |-> config.timeout]>>
             /\ UNCHANGED <<args, data>>
             /\ pc' = "parse"
    /\ UNCHANGED <<config, op>>

\* the success test as a test of the key's presence
IsSuccess_KeyPresent(json_data) == HasKey(json_data, "TRAFFICITEMS")

\* the success test of __get, line 38
IsSuccess(json_data) == DictGet(json_data, "TRAFFICITEMS") # JNull

\* __get, lines 37-44, on the received body
GetResult(r) ==
    CASE r.form = "notutf8"   -> Raised("UnicodeDecodeError", JNull)
      [] r.form = "notjson"   -> Raised("JSONDecodeError", JNull)
      [] r.form = "nonobject" -> Raised("AttributeError", JNull)
      [] r.form = "object"    ->
            IF IsSuccess(r.obj) THEN Returned(r.obj)
            ELSE GetErrorFromResponse(r.obj)

\* __get repeating the request once when the body is not a success
GetParse_Retry ==
    /\ pc = "parse"
    /\ outcome' = GetResult(response)
    /\ requests' = IF outcome'.kind = "response" THEN requests ELSE requests + 1
    /\ request' = <<>>
    /\ args' = NoArgs
    /\ data' = NoData
    /\ pc' = "done"
    /\ UNCHANGED <<config, op, response>>

\* __get, lines 37-44: decode, parse, decide, and return or raise
GetParse ==
    /\ pc = "parse"
    /\ outcome' = GetResult(response)
    /\ request' = <<>>
    /\ args' = NoArgs
    /\ data' = NoData
    /\ pc' = "done"
    /\ UNCHANGED <<config, op, requests, response>>

Next ==
    \/ IncidentsInBoundingBox
    \/ IncidentsInCorridor
    \/ IncidentsViaProximity
    \/ GetRequest
    \/ GetParse

Spec == Init /\ [][Next]_vars

(* ====================== reference definitions ========================== *)
RECURSIVE JoinSep(_, _)
\* the strings of ss separated by sep
JoinSep(ss, sep) ==
    IF Len(ss) = 0 THEN <<>>
    ELSE IF Len(ss) = 1 THEN ss[1]
    ELSE ss[1] \o sep \o JoinSep(Tail(ss), sep)

CountChar(s, c) == Cardinality({i \in DOMAIN s : s[i] = c})

\* the part of s after its last c (all of s when c does not occur)
LastField(s, c) ==
    LET at == {i \in DOMAIN s : s[i] = c}
        last == IF at = {} THEN 0 ELSE CHOOSE i \in at : \A j \in at : j <= i
    IN  SubSeq(s, last + 1, Len(s))

PairStr(p) == JoinSep(<<FloatToStr(p[1]), FloatToStr(p[2])>>, <<",">>)
PairStrs(points) == [i \in 1..Len(points) |-> PairStr(points[i])]
StrTokens(levels) == [i \in 1..Len(levels) |-> CriticalityStr(levels[i])]
IntTokens(levels) == [i \in 1..Len(levels) |-> IntToStr(CriticalityInt(levels[i]))]

InCall == pc \in {"get", "parse"}
Classified == pc = "done" /\ response.form = "object" /\ ~IsSuccess(response.obj)
Endpoint == "https://traffic.ls.hereapi.com/traffic/6.0/incidents.json"

TypeOK ==
    /\ pc \in {"idle", "get", "parse", "done"}
    /\ op \in {"none", "incidents_in_bounding_box", "incidents_in_corridor",
               "incidents_via_proximity"}
    /\ requests \in 0..1
    /\ Len(request) <= 1

(* ============================== claims ================================= *)

\* C1 (as stated): a call that received a JSON object returns a response
\* exactly when the object has the key TRAFFICITEMS, whatever its value.
C1_KeyPresenceDecides ==
    (pc = "done" /\ response.form = "object")
        => (outcome.kind = "response" <=> HasKey(response.obj, "TRAFFICITEMS"))

\* C1 (amended): a call that received a JSON object returns a response, which
\* carries that object, exactly when the object has the key TRAFFICITEMS with
\* a value other than null; every other object makes the call raise.
C1_NonNullValueDecides ==
    (pc = "done" /\ response.form = "object")
        => /\ outcome.kind = "response"
                <=> (/\ HasKey(response.obj, "TRAFFICITEMS")
                     /\ response.obj["TRAFFICITEMS"] # JNull)
           /\ outcome.kind = "response" => outcome.payload = response.obj

C1_Witness ==
    /\ pc = "done" /\ response.form = "object"
    /\ HasKey(response.obj, "TRAFFICITEMS")
    /\ response.obj["TRAFFICITEMS"] = JList("[]")
    /\ outcome.kind = "response"

\* C2: every finished call has returned a response or raised one of the three
\* API errors, a transport failure or an unusable body arriving as HEREError.
C2_ResponseOrTypedError ==
    pc = "done" =>
        /\ outcome.kind \in {"response"} \cup ApiErrorKinds
        /\ response.form # "object" => outcome.kind = "HEREError"

\* C3: whenever the classifier is given a JSON object it yields one of the
\* three error kinds and raises nothing of its own.
C3_ClassifierTotal ==
    Classified => outcome.kind \in ApiErrorKinds

C4_Decision(obj) ==
    IF HasKey(obj, "error") /\ obj["error"] = JStr("Unauthorized")
        THEN "UnauthorizedError"
    ELSE IF HasKey(obj, "Type") /\ obj["Type"] = JStr("Invalid Request")
        THEN "InvalidRequestError"
    ELSE "HEREError"

\* C4: for every JSON object the classifier yields Unauthorized when "error"
\* is "Unauthorized", else InvalidRequest when "Type" is "Invalid Request",
\* else Generic.
C4_ThreeWayDecision ==
    Classified => outcome.kind = C4_Decision(response.obj)

\* C5: an Unauthorized error carries the value of "error_description"; an
\* InvalidRequest or Generic error carries the value of "Message" when the
\* object has it and otherwise a non-empty synthesized string.
C5_Message ==
    Classified =>
        /\ outcome.kind = "UnauthorizedError"
              => outcome.msg = response.obj["error_description"]
        /\ outcome.kind \in {"InvalidRequestError", "HEREError"}
              => IF HasKey(response.obj, "Message")
                 THEN outcome.msg = response.obj["Message"]
                 ELSE outcome.msg.t = "str" /\ outcome.msg.v # ""

C5_Witness ==
    /\ Classified
    /\ outcome.kind = "HEREError"
    /\ ~HasKey(response.obj, "Message")
    /\ outcome.msg = JStr("Error occured on __get")

\* C6 (as stated): for every number of points, none included, the corridor
\* value is the "lat,lon" pairs joined by ';' followed by ";w".
C6_PairsThenSemicolonWidth ==
    (InCall /\ op = "incidents_in_corridor")
        => data.params.corridor
             = JoinSep(PairStrs(args.points), <<";">>) \o <<";">>
                  \o IntToStr(args.size)

\* C6 (amended): for k >= 1 points the corridor value is the k "lat,lon"
\* pairs in input order joined by ';' followed by ";w"; for k = 0 it is the
\* width alone, with no ';' before it.  For every k it holds k semicolons,
\* does not end in a separator, and its last ';'-separated field is the width.
C6_CorridorValue ==
    (InCall /\ op = "incidents_in_corridor")
        => LET c == data.params.corridor
               k == Len(args.points)
               w == IntToStr(args.size)
           IN  /\ k >= 1 => c = JoinSep(PairStrs(args.points), <<";">>)
                                   \o <<";">> \o w
               /\ k = 0 => c = w
               /\ CountChar(c, ";") = k
               /\ c[Len(c)] \notin {";", ","}
               /\ LastField(c, ";") = w

C6_Witness ==
    /\ pc = "parse" /\ op = "incidents_in_corridor"
    /\ args.points = <<<<525, 134>>, <<-10, 134>>>> /\ args.size = 50
    /\ data.params.corridor
         = <<"5","2",".","5",",","1","3",".","4",";",
             "-","1",".","0",",","1","3",".","4",";","5","0">>

\* C7: each criticality joiner returns the levels' tokens in input order
\* joined by ','; n >= 1 levels give n-1 commas and no comma at either end,
\* and no level gives the empty string, which is what the request carries.
C7_Joiners ==
    (InCall /\ op \in {"incidents_in_bounding_box", "incidents_via_proximity"})
        => LET c == data.params.criticality
               n == Len(args.criticality)
               tokens == IF op = "incidents_in_bounding_box"
                         THEN StrTokens(args.criticality)
                         ELSE IntTokens(args.criticality)
           IN  /\ c = JoinSep(tokens, <<",">>)
               /\ n >= 1 => /\ CountChar(c, ",") = n - 1
                            /\ c[1] # "," /\ c[Len(c)] # ","
               /\ n = 0 => c = <<>>
               /\ request # <<>> => request[1].get.params.criticality = c

C7_Witness ==
    /\ pc = "parse" /\ op = "incidents_in_bounding_box"
    /\ args.criticality = <<"critical", "major">>
    /\ request[1].get.params.criticality
         = <<"c","r","i","t","i","c","a","l",",","m","a","j","o","r">>

\* C8: a call has issued no GET before requests.get, exactly one from then on
\* and still exactly one when it has returned or raised.
C8_OneRequestPerCall ==
    /\ pc \in {"idle", "get"} => requests = 0
    /\ pc \in {"parse", "done"} => requests = 1
    /\ pc = "parse" <=> request # <<>>

C8_Witness ==
    pc = "done" /\ outcome.kind = "InvalidRequestError" /\ requests = 1

\* C9: no step of any call changes the API key, the timeout or the base URL,
\* and the base URL is the one the constructor sets.
C9_ConfigFixed ==
    [](config.base_url = BaseUrl) /\ [][config' = config]_vars

C9_Witness ==
    /\ pc = "done" /\ outcome.kind = "UnauthorizedError"
    /\ config.api_key = <<"k", "2">> /\ config.timeout = <<5>>

\* C10: the request of the bounding-box query has exactly the parameters
\* apiKey, bbox = "lat1,lon1;lat2,lon2" and criticality; that of the corridor
\* query exactly apiKey and corridor; that of the proximity query exactly
\* apiKey, prox = "lat,lon,radius" and criticality, the comma-joined integer
\* tokens.  apiKey is the configured key and the endpoint is incidents.json.
C10_RequestParameters ==
    pc = "parse" =>
        LET q == request[1].get
            P == q.params
        IN  /\ q.url = Endpoint
            /\ P.apiKey = config.api_key
            /\ op = "incidents_in_bounding_box" =>
                  /\ DOMAIN P = {"apiKey", "bbox", "criticality"}
                  /\ P.bbox = JoinSep(PairStrs(args.points), <<";">>)
                  /\ P.criticality = JoinSep(StrTokens(args.criticality), <<",">>)
            /\ op = "incidents_in_corridor" =>
                  DOMAIN P = {"apiKey", "corridor"}
            /\ op = "incidents_via_proximity" =>
                  /\ DOMAIN P = {"apiKey", "prox", "criticality"}
                  /\ P.prox = PairStr(args.points[1]) \o <<",">>
                                 \o IntToStr(args.size)
                  /\ P.criticality = JoinSep(IntTokens(args.criticality), <<",">>)

C10_Witness ==
    /\ pc = "parse" /\ op = "incidents_via_proximity"
    /\ request[1].get.params.prox
         = <<"5","2",".","5",",","1","3",".","4",",","1","0","0","0">>
    /\ request[1].get.params.criticality = <<"1">>
====
